---- MODULE Spec2Model ----
(***************************************************************************)
(* Battleship Carnage: the Socket.IO relay server (server/index.ts and     *)
(* GameState), the client NetworkManager, the Ship kinematics, the         *)
(* GameEngine input handling and the PhysicsEngine.                        *)
(*                                                                         *)
(* Numbers of the TypeScript code are IEEE doubles; the model keeps them   *)
(* in fixed point (the unit of every quantity is stated where it is        *)
(* defined) so that TLC's 32-bit integers can carry them.                  *)
(***************************************************************************)
EXTENDS Integers, Sequences, FiniteSets, TLC

VARIABLES
    \* ---- server (src/server/index.ts, GameState) ----
    sockets,      \* ids of the sockets connected to the server
    nextId,       \* number of socket ids handed out so far
    players,      \* GameState.players: the Map, as a sequence in insertion order
    emitted,      \* what the last server handler emitted, per receiving socket
    lastEvent,    \* the last server event and how the handler answered it
    \* ---- client (NetworkManager) and the Socket.IO transport ----
    sid,          \* per client: the id of its current connection, 0 when disconnected
    joinCalled,   \* per client: the GameEngine was constructed (joinGame was called)
    nm,           \* per client: NetworkManager.players and localPlayerId
    sendBuffer,   \* per client: what was emitted while disconnected
    up,           \* per socket id: client-to-server messages in flight
    down,         \* per socket id: server-to-client messages in flight
    owner,        \* per socket id: the client it was handed to
    removed,      \* per client: the server removed its player on a disconnect
    lastClient,   \* the last client-side step
    \* ---- game client (GameEngine, InputHandler, Ship, PhysicsEngine) ----
    playerShip,   \* GameEngine.playerShip
    entities,     \* GameEngine.entities: the Map of the other players' ships
    inputState,   \* InputHandler.inputState
    lastInput,    \* GameEngine.lastThrottleUp .. lastCenterRudder
    lastShipOp,   \* the last call on the player's ship, with what it started from
    lastFrame,    \* what the last frame of the game loop did
    steps         \* number of steps taken so far

serverVars == <<sockets, nextId, players, emitted, lastEvent>>
clientVars == <<sid, joinCalled, nm, sendBuffer, up, down, owner, removed, lastClient>>
vars == <<sockets, nextId, players, emitted, lastEvent,
          sid, joinCalled, nm, sendBuffer, up, down, owner, removed, lastClient,
          playerShip, entities, inputState, lastInput, lastShipOp, lastFrame,
          steps>>
gameVars == <<playerShip, entities, inputState, lastInput, lastShipOp, lastFrame>>

(***************************************************************************)
(* Bounds and input sets                                                   *)
(***************************************************************************)
MaxSockets == 3
\* number of server events of one run of Spec
MaxEvents == 8
\* number of steps of one run of SpecNet
MaxNetSteps == 10
\* number of calls on the ship of one run of SpecShip
MaxShipSteps == 7
\* frame times in milliseconds: none, a 60 Hz frame, a slow frame, a stall of one
\* second and one of twelve (where the drag of a frame exceeds the speed)
ShipDts == {0, 16, 399, 1000, 12000}
\* number of steps of one run of SpecGame and of SpecInput
MaxGameSteps == 4
\* frame times of the game loop in milliseconds: a 60 Hz frame, and the first
\* frame after the tab was in the background for 500 s
GameDts == {16, 500000}
InputDts == {16}
\* the key the player holds in SpecGame
GameKeys == {"KeyW"}
\* the other players
EntityIds == {"p2", "p3"}
\* positions the server sends, in hundredths: 80 units east of the origin;
\* 79.2 units from the origin; on the east border and 50 units inside it
RemotePositions ==
    {[x |-> 8000, y |-> 0], [x |-> 4800, y |-> 6300],
     [x |-> 500000, y |-> 0], [x |-> 495000, y |-> 0]}
\* where the server places the local player: Math.random() * 1000 - 500
JoinedPositions == {[x |-> -50000, y |-> 49900]}
\* a quarter turn to starboard, in microradians
RemoteRotations == {1570796}
\* what players:list can carry
PlayerLists ==
    {<<[id |-> "p2", position |-> [x |-> 4800, y |-> 6300], rotation |-> 0, health |-> 100],
       [id |-> "p3", position |-> [x |-> 8000, y |-> 0], rotation |-> 0, health |-> 100]>>}
\* the browsers that run the client
Clients == {"c1", "c2"}
NoClient == "none"
\* the name startGame passes to the GameEngine is never empty
ClientNames == {"Ann"}
SocketIds == 1..MaxSockets

\* names a client may send with player:join ("" is the falsy name)
Names == {"", "Ann"}
\* values of Math.random() * 1000 - 500, in [-500, 500)
JoinPositions == {[x |-> -500, y |-> 499]}
\* payloads of player:move and player:rotate
MovePositions == {[x |-> 7, y |-> -3]}
MoveRotations == {2}

(***************************************************************************)
(* A JavaScript Map kept as a sequence of records with an id field         *)
(***************************************************************************)
MapHas(m, k) == \E i \in 1..Len(m) : m[i].id = k

MapGet(m, k) == m[CHOOSE i \in 1..Len(m) : m[i].id = k]

\* Map.set: an existing key keeps its place, a new key goes last
MapSet(m, k, v) ==
    IF MapHas(m, k)
    THEN [i \in 1..Len(m) |-> IF m[i].id = k THEN v ELSE m[i]]
    ELSE Append(m, v)

\* Map.delete: the map without the key
MapDelete(m, k) == SelectSeq(m, LAMBDA e : e.id # k)

MapKeys(m) == {m[i].id : i \in 1..Len(m)}

(***************************************************************************)
(* GameState                                                               *)
(***************************************************************************)
DefaultName(n) ==
    CASE n = 1 -> "Player 1"
      [] n = 2 -> "Player 2"
      [] n = 3 -> "Player 3"
      [] n = 4 -> "Player 4"
      [] OTHER -> "Player 5"

\* the record addPlayer builds; rnd stands for the two Math.random() draws
NewPlayer(ps, socketId, name, rnd) ==
    [id       |-> socketId,
     name     |-> IF name = "" THEN DefaultName(Len(ps) + 1) ELSE name,
     position |-> rnd,
     rotation |-> 0,
     health   |-> 100,
     score    |-> 0]

addPlayer(ps, socketId, name, rnd) ==
    MapSet(ps, socketId, NewPlayer(ps, socketId, name, rnd))

\* a removePlayer that reports the removal and keeps the entry
removePlayer_keepsEntry(ps, socketId) ==
    [players |-> ps, result |-> MapHas(ps, socketId)]

removePlayer(ps, socketId) ==
    [players |-> MapDelete(ps, socketId), result |-> MapHas(ps, socketId)]

getAllPlayers(ps) == ps

\* an updatePlayerPosition that registers a player for an unknown socket
updatePlayerPosition_upsert(ps, socketId, position) ==
    IF ~MapHas(ps, socketId)
    THEN [players |-> addPlayer(ps, socketId, "", position), result |-> TRUE]
    ELSE [players |-> MapSet(ps, socketId,
                             [MapGet(ps, socketId) EXCEPT !.position = position]),
          result  |-> TRUE]

updatePlayerPosition(ps, socketId, position) ==
    IF ~MapHas(ps, socketId)
    THEN [players |-> ps, result |-> FALSE]
    ELSE [players |-> MapSet(ps, socketId,
                             [MapGet(ps, socketId) EXCEPT !.position = position]),
          result  |-> TRUE]

\* an updatePlayerRotation that writes the payload to the wrong field
updatePlayerRotation_intoHealth(ps, socketId, rotation) ==
    IF ~MapHas(ps, socketId)
    THEN [players |-> ps, result |-> FALSE]
    ELSE [players |-> MapSet(ps, socketId,
                             [MapGet(ps, socketId) EXCEPT !.health = rotation]),
          result  |-> TRUE]

updatePlayerRotation(ps, socketId, rotation) ==
    IF ~MapHas(ps, socketId)
    THEN [players |-> ps, result |-> FALSE]
    ELSE [players |-> MapSet(ps, socketId,
                             [MapGet(ps, socketId) EXCEPT !.rotation = rotation]),
          result  |-> TRUE]

(***************************************************************************)
(* Socket.IO emission: per receiving socket, the messages in emission order *)
(***************************************************************************)
NoEmission == [t \in SocketIds |-> <<>>]

\* socket.emit(msg): to the socket itself
SocketEmit(out, s, msg) == [out EXCEPT ![s] = Append(@, msg)]

\* io.emit(msg) in the place of socket.broadcast.emit(msg): the sender included
BroadcastEmit_toAll(out, socks, s, msg) ==
    [t \in SocketIds |-> IF t \in socks THEN Append(out[t], msg) ELSE out[t]]

\* socket.broadcast.emit(msg): to every connected socket except the sender
BroadcastEmit(out, socks, s, msg) ==
    [t \in SocketIds |-> IF t \in socks /\ t # s THEN Append(out[t], msg) ELSE out[t]]

(***************************************************************************)
(* The handlers of io.on('connection'), as functions of the server state   *)
(***************************************************************************)
\* a join handler that sends the list before the acknowledgement
JoinHandler_listFirst(ps, socks, s, name, rnd) ==
    LET ps1    == addPlayer(ps, s, name, rnd)
        player == NewPlayer(ps, s, name, rnd)
        o1     == SocketEmit(NoEmission, s, [type |-> "players:list", players |-> getAllPlayers(ps1)])
        o2     == BroadcastEmit(o1, socks, s, [type |-> "player:new", player |-> player])
        o3     == SocketEmit(o2, s, [type |-> "player:joined", player |-> player])
    IN  [players |-> ps1, out |-> o3]

JoinHandler(ps, socks, s, name, rnd) ==
    LET ps1    == addPlayer(ps, s, name, rnd)
        player == NewPlayer(ps, s, name, rnd)
        o1     == SocketEmit(NoEmission, s, [type |-> "player:joined", player |-> player])
        o2     == BroadcastEmit(o1, socks, s, [type |-> "player:new", player |-> player])
        o3     == SocketEmit(o2, s, [type |-> "players:list", players |-> getAllPlayers(ps1)])
    IN  [players |-> ps1, out |-> o3]

MoveHandler(ps, socks, s, position) ==
    LET r == updatePlayerPosition(ps, s, position)
    IN  [players |-> r.players,
         ok      |-> r.result,
         out     |-> IF r.result
                     THEN BroadcastEmit(NoEmission, socks, s,
                              [type |-> "player:moved", id |-> s, position |-> position])
                     ELSE NoEmission]

RotateHandler(ps, socks, s, rotation) ==
    LET r == updatePlayerRotation(ps, s, rotation)
    IN  [players |-> r.players,
         ok      |-> r.result,
         out     |-> IF r.result
                     THEN BroadcastEmit(NoEmission, socks, s,
                              [type |-> "player:rotated", id |-> s, rotation |-> rotation])
                     ELSE NoEmission]

\* a disconnect handler that announces every socket that leaves, joined or not
DisconnectHandler_alwaysEmits(ps, socks, s) ==
    LET r == removePlayer(ps, s)
    IN  [players |-> r.players,
         ok      |-> r.result,
         out     |-> BroadcastEmit(NoEmission, socks, s,
                                   [type |-> "player:left", id |-> s])]

\* socks: the sockets still connected, the disconnecting one no longer among them
DisconnectHandler(ps, socks, s) ==
    LET r == removePlayer(ps, s)
    IN  [players |-> r.players,
         ok      |-> r.result,
         out     |-> IF r.result
                     THEN BroadcastEmit(NoEmission, socks, s,
                              [type |-> "player:left", id |-> s])
                     ELSE NoEmission]

(***************************************************************************)
(* What the server records about the event it handled                      *)
(***************************************************************************)
JoinEvent(ps, s, name) ==
    [type |-> "player:join", socket |-> s, name |-> name, registered |-> MapHas(ps, s)]

MoveEvent(ps, s, position) ==
    [type |-> "player:move", socket |-> s, payload |-> position, registered |-> MapHas(ps, s)]

RotateEvent(ps, s, rotation) ==
    [type |-> "player:rotate", socket |-> s, payload |-> rotation, registered |-> MapHas(ps, s)]

DisconnectEvent(ps, s) ==
    [type |-> "disconnect", socket |-> s, registered |-> MapHas(ps, s)]

(***************************************************************************)
(* NetworkManager: the handlers of setupEventListeners                     *)
(***************************************************************************)
NoPlayer == 0

NewNetworkManager == [players |-> <<>>, localPlayerId |-> NoPlayer]

\* 'connect', 'connect_error' and 'disconnect' only log
NM_onConnect(m) == m

NM_onConnectError(m) == m

NM_onDisconnect(m) == m

\* a 'connect' handler that joins again once the client has a local player
NM_connectEmits_rejoin(m) ==
    IF m.localPlayerId # NoPlayer
    THEN <<[type |-> "player:join", name |-> "Ann"]>>
    ELSE <<>>

\* what the 'connect' handler emits: nothing
NM_connectEmits(m) == <<>>

NM_onPlayerJoined(m, player) ==
    [players |-> MapSet(m.players, player.id, player), localPlayerId |-> player.id]

NM_onPlayerNew(m, player) ==
    [m EXCEPT !.players = MapSet(m.players, player.id, player)]

NM_onPlayerLeft(m, id) ==
    [m EXCEPT !.players = MapDelete(m.players, id)]

NM_onPlayerMoved(m, id, position) ==
    IF MapHas(m.players, id)
    THEN [m EXCEPT !.players = MapSet(m.players, id,
                                      [MapGet(m.players, id) EXCEPT !.position = position])]
    ELSE m

NM_onPlayerRotated(m, id, rotation) ==
    IF MapHas(m.players, id)
    THEN [m EXCEPT !.players = MapSet(m.players, id,
                                      [MapGet(m.players, id) EXCEPT !.rotation = rotation])]
    ELSE m

RECURSIVE ListInto(_, _, _)
\* players.forEach of the 'players:list' handler, from entry i on
ListInto(m, list, i) ==
    IF i > Len(list) THEN m
    ELSE ListInto(IF list[i].id # m.localPlayerId
                  THEN [m EXCEPT !.players = MapSet(m.players, list[i].id, list[i])]
                  ELSE m,
                  list, i + 1)

NM_onPlayersList(m, list) == ListInto(m, list, 1)

NM_handle(m, msg) ==
    CASE msg.type = "player:joined"  -> NM_onPlayerJoined(m, msg.player)
      [] msg.type = "player:new"     -> NM_onPlayerNew(m, msg.player)
      [] msg.type = "player:left"    -> NM_onPlayerLeft(m, msg.id)
      [] msg.type = "player:moved"   -> NM_onPlayerMoved(m, msg.id, msg.position)
      [] msg.type = "player:rotated" -> NM_onPlayerRotated(m, msg.id, msg.rotation)
      [] msg.type = "players:list"   -> NM_onPlayersList(m, msg.players)
      [] OTHER -> m

(***************************************************************************)
(* Fixed-point arithmetic.  Units: time in milliseconds; speed, velocity,  *)
(* acceleration, rotationSpeed, speed and rudder settings and factors in   *)
(* thousandths; rotation in microradians; position, width and height in    *)
(* hundredths of a world unit.                                             *)
(***************************************************************************)
Abs(a) == IF a < 0 THEN -a ELSE a
Min(a, b) == IF a < b THEN a ELSE b
Max(a, b) == IF a > b THEN a ELSE b

\* a / b rounded to the nearest integer, as a double operation rounds (b > 0)
RoundDiv(a, b) ==
    IF a >= 0 THEN (2 * a + b) \div (2 * b) ELSE -((2 * (-a) + b) \div (2 * b))

\* v * deltaTime, for deltaTime given in milliseconds
MulDt(v, ms) == v * (ms \div 1000) + RoundDiv(v * (ms % 1000), 1000)

\* Math.PI * 2 and Math.PI / 2, in microradians
TWO_PI == 6283185
HALF_PI == 1570796
\* Math.PI in milliradians, and its square
PI_MRAD == 3142
PI_MRAD_SQ == 9872164

\* sin of an angle of [0, pi], in thousandths (the angle in milliradians):
\* 16 p / (5 pi^2 - 4 p) with p = x (pi - x), within 0.002 of Math.sin
SinHalfTurn(xm) ==
    LET x == Min(xm, PI_MRAD)
        p == x * (PI_MRAD - x)
    IN  RoundDiv(16000 * (p \div 100), (5 * PI_MRAD_SQ - 4 * p) \div 100)

\* Math.sin and Math.cos of a rotation in microradians, in thousandths
Sin(rot) ==
    LET xm == (rot % TWO_PI) \div 1000
    IN  IF xm <= PI_MRAD THEN SinHalfTurn(xm) ELSE -SinHalfTurn(xm - PI_MRAD)
Cos(rot) == Sin(rot + HALF_PI)

(***************************************************************************)
(* Ship                                                                    *)
(***************************************************************************)
\* enum NavalSpeed
FULL_REVERSE == -600
HALF_REVERSE == -300
FULL_STOP == 0
DEAD_SLOW == 200
SLOW == 400
HALF == 700
FULL == 1000
NavalSpeed == {FULL_REVERSE, HALF_REVERSE, FULL_STOP, DEAD_SLOW, SLOW, HALF, FULL}

\* enum RudderSetting
HARD_PORT == -1000
HALF_PORT == -500
MIDSHIPS == 0
HALF_STARBOARD == 500
HARD_STARBOARD == 1000

\* turning physics constants
MIN_TURN_FACTOR == 200
MAX_TURN_FACTOR == 1000
OPTIMAL_TURN_SPEED == 600
MIN_SPEED_FOR_TURNING == 50

\* the 0.01 of updateSpeed and of applyDrag
SpeedEpsilon == 10

\* constructor, with the field initialisers
NewShip(position, rotation, maxSpeed, rotationSpeed, acceleration, health) ==
    [position |-> position, rotation |-> rotation, velocity |-> [x |-> 0, y |-> 0],
     currentSpeed |-> 0, maxSpeed |-> maxSpeed, rotationSpeed |-> rotationSpeed,
     acceleration |-> acceleration, health |-> health,
     targetSpeedSetting |-> FULL_STOP, targetSpeed |-> 0, rudderSetting |-> MIDSHIPS,
     width |-> 4000, height |-> 8000]

\* acceleration * 15.0 * deltaTime
ChangeRate(ship, dt) == MulDt(ship.acceleration * 15, dt)

\* an updateSpeed that decelerates without the Math.max at the target
updateSpeed_noFloor(ship, dt) ==
    LET targetSpeed == (ship.targetSpeedSetting * ship.maxSpeed) \div 1000
        speedDiff == targetSpeed - ship.currentSpeed
        changeRate == ChangeRate(ship, dt)
    IN  IF Abs(speedDiff) > SpeedEpsilon
        THEN [ship EXCEPT !.targetSpeed = targetSpeed,
                          !.currentSpeed =
                              IF speedDiff > 0
                              THEN Min(targetSpeed, ship.currentSpeed + changeRate)
                              ELSE ship.currentSpeed - changeRate]
        ELSE [ship EXCEPT !.targetSpeed = targetSpeed]

\* an updateSpeed that steps by the change rate without clamping at the target
updateSpeed_overshoot(ship, dt) ==
    LET targetSpeed == (ship.targetSpeedSetting * ship.maxSpeed) \div 1000
        speedDiff == targetSpeed - ship.currentSpeed
    IN  [ship EXCEPT !.targetSpeed = targetSpeed,
                     !.currentSpeed = IF speedDiff > 0 THEN @ + ChangeRate(ship, dt)
                                      ELSE IF speedDiff < 0 THEN @ - ChangeRate(ship, dt)
                                      ELSE @]

updateSpeed(ship, dt) ==
    LET targetSpeed == (ship.targetSpeedSetting * ship.maxSpeed) \div 1000
        speedDiff == targetSpeed - ship.currentSpeed
        changeRate == ChangeRate(ship, dt)
    IN  IF Abs(speedDiff) > SpeedEpsilon
        THEN [ship EXCEPT !.targetSpeed = targetSpeed,
                          !.currentSpeed =
                              IF speedDiff > 0
                              THEN Min(targetSpeed, ship.currentSpeed + changeRate)
                              ELSE Max(targetSpeed, ship.currentSpeed - changeRate)]
        ELSE [ship EXCEPT !.targetSpeed = targetSpeed]

\* the turn factor of a normalized speed, both in thousandths
TurnFactor(absSpeed) ==
    LET raw == IF absSpeed < OPTIMAL_TURN_SPEED
               THEN MIN_TURN_FACTOR
                    + RoundDiv((MAX_TURN_FACTOR - MIN_TURN_FACTOR)
                               * (absSpeed - MIN_SPEED_FOR_TURNING),
                               OPTIMAL_TURN_SPEED - MIN_SPEED_FOR_TURNING)
               ELSE MAX_TURN_FACTOR
                    - RoundDiv((MAX_TURN_FACTOR - MIN_TURN_FACTOR)
                               * (absSpeed - OPTIMAL_TURN_SPEED),
                               1000 - OPTIMAL_TURN_SPEED)
    IN  Max(MIN_TURN_FACTOR, Min(MAX_TURN_FACTOR, raw))

\* rudderSetting * rotationSpeed * turnFactor * directionFactor * deltaTime * 5.0
RotationAmount(ship, absSpeed, dt) ==
    LET directionFactor == IF ship.currentSpeed >= 0 THEN 1 ELSE -1
        perSecond == RoundDiv(ship.rudderSetting * ship.rotationSpeed, 1000)
                     * TurnFactor(absSpeed) * directionFactor * 5
    IN  MulDt(perSecond, dt)

updateRotation_anySpeed(ship, dt) ==
    LET absSpeed == (Abs(ship.currentSpeed) * 1000) \div ship.maxSpeed
        rotationAmount == RotationAmount(ship, absSpeed, dt)
    IN  IF rotationAmount # 0
        THEN [ship EXCEPT !.rotation = (@ + rotationAmount) % TWO_PI]
        ELSE ship

updateRotation(ship, dt) ==
    LET absSpeed == (Abs(ship.currentSpeed) * 1000) \div ship.maxSpeed
        rotationAmount == RotationAmount(ship, absSpeed, dt)
    IN  IF absSpeed < MIN_SPEED_FOR_TURNING
        THEN ship
        ELSE IF rotationAmount # 0
             THEN [ship EXCEPT !.rotation = (@ + rotationAmount) % TWO_PI]
             ELSE ship

\* a coordinate that is NaN (0 / 0 in resolveCollision)
NaN == -2000000000
IsNaN(a) == a = NaN
\* a + b and a < b of doubles that may be NaN
AddN(a, b) == IF IsNaN(a) \/ IsNaN(b) THEN NaN ELSE a + b
LtN(a, b) == ~IsNaN(a) /\ ~IsNaN(b) /\ a < b

applyDrag(ship, dt) ==
    IF ship.targetSpeedSetting = FULL_STOP
    THEN IF Abs(ship.currentSpeed) > SpeedEpsilon
         THEN [ship EXCEPT !.currentSpeed = @ - RoundDiv(MulDt(ship.currentSpeed, dt), 10)]
         ELSE [ship EXCEPT !.currentSpeed = 0]
    ELSE ship

\* velocity from speed and rotation, then position += velocity * deltaTime
Move(ship, dt) ==
    LET velocity == [x |-> RoundDiv(Sin(ship.rotation) * ship.currentSpeed, 1000),
                     y |-> RoundDiv(-Cos(ship.rotation) * ship.currentSpeed, 1000)]
    IN  [ship EXCEPT !.velocity = velocity,
                     !.position = [x |-> AddN(@.x, RoundDiv(MulDt(velocity.x, dt), 10)),
                                   y |-> AddN(@.y, RoundDiv(MulDt(velocity.y, dt), 10))]]

Ship_update(ship, dt) ==
    applyDrag(Move(updateRotation(updateSpeed(ship, dt), dt), dt), dt)

setSpeedSetting(ship, setting) == [ship EXCEPT !.targetSpeedSetting = setting]

\* an increaseSpeedSetting that wraps around from FULL to FULL_REVERSE
increaseSpeedSetting_wraps(ship) ==
    CASE ship.targetSpeedSetting = FULL_REVERSE -> setSpeedSetting(ship, HALF_REVERSE)
      [] ship.targetSpeedSetting = HALF_REVERSE -> setSpeedSetting(ship, FULL_STOP)
      [] ship.targetSpeedSetting = FULL_STOP -> setSpeedSetting(ship, DEAD_SLOW)
      [] ship.targetSpeedSetting = DEAD_SLOW -> setSpeedSetting(ship, SLOW)
      [] ship.targetSpeedSetting = SLOW -> setSpeedSetting(ship, HALF)
      [] ship.targetSpeedSetting = HALF -> setSpeedSetting(ship, FULL)
      [] OTHER -> setSpeedSetting(ship, FULL_REVERSE)

increaseSpeedSetting(ship) ==
    CASE ship.targetSpeedSetting = FULL_REVERSE -> setSpeedSetting(ship, HALF_REVERSE)
      [] ship.targetSpeedSetting = HALF_REVERSE -> setSpeedSetting(ship, FULL_STOP)
      [] ship.targetSpeedSetting = FULL_STOP -> setSpeedSetting(ship, DEAD_SLOW)
      [] ship.targetSpeedSetting = DEAD_SLOW -> setSpeedSetting(ship, SLOW)
      [] ship.targetSpeedSetting = SLOW -> setSpeedSetting(ship, HALF)
      [] ship.targetSpeedSetting = HALF -> setSpeedSetting(ship, FULL)
      [] OTHER -> ship

decreaseSpeedSetting(ship) ==
    CASE ship.targetSpeedSetting = FULL -> setSpeedSetting(ship, HALF)
      [] ship.targetSpeedSetting = HALF -> setSpeedSetting(ship, SLOW)
      [] ship.targetSpeedSetting = SLOW -> setSpeedSetting(ship, DEAD_SLOW)
      [] ship.targetSpeedSetting = DEAD_SLOW -> setSpeedSetting(ship, FULL_STOP)
      [] ship.targetSpeedSetting = FULL_STOP -> setSpeedSetting(ship, HALF_REVERSE)
      [] ship.targetSpeedSetting = HALF_REVERSE -> setSpeedSetting(ship, FULL_REVERSE)
      [] OTHER -> ship

setRudderSetting(ship, setting) == [ship EXCEPT !.rudderSetting = setting]

turnRudderPort(ship) ==
    CASE ship.rudderSetting = HARD_STARBOARD -> setRudderSetting(ship, HALF_STARBOARD)
      [] ship.rudderSetting = HALF_STARBOARD -> setRudderSetting(ship, MIDSHIPS)
      [] ship.rudderSetting = MIDSHIPS -> setRudderSetting(ship, HALF_PORT)
      [] ship.rudderSetting = HALF_PORT -> setRudderSetting(ship, HARD_PORT)
      [] OTHER -> ship

turnRudderStarboard(ship) ==
    CASE ship.rudderSetting = HARD_PORT -> setRudderSetting(ship, HALF_PORT)
      [] ship.rudderSetting = HALF_PORT -> setRudderSetting(ship, MIDSHIPS)
      [] ship.rudderSetting = MIDSHIPS -> setRudderSetting(ship, HALF_STARBOARD)
      [] ship.rudderSetting = HALF_STARBOARD -> setRudderSetting(ship, HARD_STARBOARD)
      [] OTHER -> ship

centerRudder(ship) == setRudderSetting(ship, MIDSHIPS)

takeDamage(ship, amount) == [ship EXCEPT !.health = @ - amount]

\* the ship the GameEngine constructor creates for the player
NewPlayerShip == NewShip([x |-> 0, y |-> 0], 0, 60000, 150, 2000, 100)
\* the ship setupNetworkHandlers creates for another player
NewOtherShip(position, rotation, health) == NewShip(position, rotation, 5000, 50, 300, health)

(***************************************************************************)
(* InputHandler and GameEngine.handleInput                                 *)
(***************************************************************************)
\* the key codes updateInputState knows
KeyCodes == {"KeyW", "KeyS", "KeyA", "KeyD", "Space"}

\* inputState.fire (the mouse button) is read by nothing in the game loop
updateInputState(state, keyCode, isPressed) ==
    CASE keyCode = "KeyW" -> [state EXCEPT !.throttleUp = isPressed]
      [] keyCode = "KeyS" -> [state EXCEPT !.throttleDown = isPressed]
      [] keyCode = "KeyA" -> [state EXCEPT !.turnLeft = isPressed]
      [] keyCode = "KeyD" -> [state EXCEPT !.turnRight = isPressed]
      [] keyCode = "Space" -> [state EXCEPT !.centerRudder = isPressed]
      [] OTHER -> state

\* the throttle branch of handleInput: the ship operation it calls, if any
ThrottleOp(input, last) ==
    IF input.throttleUp /\ ~last.throttleUp THEN <<"increaseSpeedSetting">>
    ELSE IF input.throttleDown /\ ~last.throttleDown THEN <<"decreaseSpeedSetting">>
    ELSE <<>>

\* the steering branch of handleInput: the ship operation it calls, if any
RudderOp(input, last) ==
    IF input.turnLeft /\ ~last.turnLeft THEN <<"turnRudderPort">>
    ELSE IF input.turnRight /\ ~last.turnRight THEN <<"turnRudderStarboard">>
    ELSE IF input.centerRudder /\ ~last.centerRudder THEN <<"centerRudder">>
    ELSE <<>>

\* one operation of the ship, by name
ApplyOp(ship, op) ==
    CASE op = "increaseSpeedSetting" -> increaseSpeedSetting(ship)
      [] op = "decreaseSpeedSetting" -> decreaseSpeedSetting(ship)
      [] op = "turnRudderPort" -> turnRudderPort(ship)
      [] op = "turnRudderStarboard" -> turnRudderStarboard(ship)
      [] op = "centerRudder" -> centerRudder(ship)
      [] OTHER -> ship

RECURSIVE ApplyOps(_, _)
ApplyOps(ship, ops) ==
    IF ops = <<>> THEN ship ELSE ApplyOps(ApplyOp(ship, Head(ops)), Tail(ops))

\* handleInput: the ship after it, the last* flags after it, and the ship
\* operations it called, in order
handleInput(ship, input, last) ==
    LET applied == ThrottleOp(input, last) \o RudderOp(input, last)
    IN  [ship |-> ApplyOps(ship, applied), last |-> input, applied |-> applied]

(***************************************************************************)
(* PhysicsEngine                                                           *)
(***************************************************************************)
worldBounds == [minX |-> -500000, maxX |-> 500000, minY |-> -500000, maxY |-> 500000]

\* the body of the loop of enforceWorldBoundaries
EnforceEntity(entity) ==
    LET ex == IF LtN(entity.position.x, worldBounds.minX)
              THEN [entity EXCEPT !.position.x = worldBounds.minX, !.velocity.x = 0]
              ELSE IF LtN(worldBounds.maxX, entity.position.x)
              THEN [entity EXCEPT !.position.x = worldBounds.maxX, !.velocity.x = 0]
              ELSE entity
    IN  IF LtN(ex.position.y, worldBounds.minY)
        THEN [ex EXCEPT !.position.y = worldBounds.minY, !.velocity.y = 0]
        ELSE IF LtN(worldBounds.maxY, ex.position.y)
        THEN [ex EXCEPT !.position.y = worldBounds.maxY, !.velocity.y = 0]
        ELSE ex

enforceWorldBoundaries(list) == [i \in 1..Len(list) |-> EnforceEntity(list[i])]

\* d * d, saturating far above any square a sum of radii can have
SatSq(d) == IF Abs(d) >= 30000 THEN 900000000 ELSE d * d

\* Math.max(width, height) / 2
Radius(entity) == Max(entity.width, entity.height) \div 2

\* sqrt(dx^2 + dy^2) < radiusA + radiusB, compared as squares; a NaN
\* coordinate makes the distance NaN and the comparison false
checkCollision_oneRadius(entityA, entityB) ==
    LET pa == entityA.position
        pb == entityB.position
    IN  /\ ~IsNaN(pa.x) /\ ~IsNaN(pa.y) /\ ~IsNaN(pb.x) /\ ~IsNaN(pb.y)
        /\ SatSq(pa.x - pb.x) + SatSq(pa.y - pb.y) < Radius(entityA) * Radius(entityA)

checkCollision(entityA, entityB) ==
    LET pa == entityA.position
        pb == entityB.position
        radii == Radius(entityA) + Radius(entityB)
    IN  /\ ~IsNaN(pa.x) /\ ~IsNaN(pa.y) /\ ~IsNaN(pb.x) /\ ~IsNaN(pb.y)
        /\ SatSq(pa.x - pb.x) + SatSq(pa.y - pb.y) < radii * radii

\* the integer square root, by bisection on [lo, hi]
RECURSIVE IsqrtIn(_, _, _)
IsqrtIn(n, lo, hi) ==
    IF lo >= hi THEN lo
    ELSE LET mid == (lo + hi + 1) \div 2
         IN  IF mid * mid <= n THEN IsqrtIn(n, mid, hi) ELSE IsqrtIn(n, lo, mid - 1)
Isqrt(n) == IsqrtIn(n, 0, 30000)

\* resolveCollision when the two positions coincide: distance is 0, the
\* normal 0 / 0 is NaN, no comparison with it holds, and the impulse and the
\* correction (the penetration exceeds the slop) carry it into both entities
PoisonEntity(entity) ==
    [entity EXCEPT !.velocity = [x |-> NaN, y |-> NaN],
                   !.position = [x |-> NaN, y |-> NaN]]

\* resolveCollision of two entities that checkCollision found colliding
resolveCollision(entityA, entityB) ==
    LET dx == entityB.position.x - entityA.position.x
        dy == entityB.position.y - entityA.position.y
        distance == Isqrt(dx * dx + dy * dy)
        \* the normal, in thousandths
        nx == RoundDiv(dx * 1000, distance)
        ny == RoundDiv(dy * 1000, distance)
        rvx == entityB.velocity.x - entityA.velocity.x
        rvy == entityB.velocity.y - entityA.velocity.y
        velAlongNormal == RoundDiv(rvx * nx + rvy * ny, 1000)
        \* -(1 + restitution) * velAlongNormal, restitution = 0.2
        impulseScalar == RoundDiv(-12 * velAlongNormal, 10)
        impulseX == RoundDiv(impulseScalar * nx, 1000)
        impulseY == RoundDiv(impulseScalar * ny, 1000)
        penetration == (Radius(entityA) + Radius(entityB)) - distance
        \* correction / 2 = n * penetration * percent / 2, percent = 0.2;
        \* the slop 0.01 is one hundredth
        halfX == IF penetration > 1 THEN RoundDiv(nx * penetration, 10000) ELSE 0
        halfY == IF penetration > 1 THEN RoundDiv(ny * penetration, 10000) ELSE 0
        collisionForce == Abs(velAlongNormal) * 5
        damage == IF collisionForce > 1000 THEN collisionForce \div 1000 ELSE 0
        hit(e, sign) ==
            takeDamage([e EXCEPT !.velocity = [x |-> @.x + sign * impulseX,
                                               y |-> @.y + sign * impulseY],
                                 !.position = [x |-> @.x + sign * halfX,
                                               y |-> @.y + sign * halfY]],
                       damage)
    IN  IF dx = 0 /\ dy = 0
        THEN [a |-> PoisonEntity(entityA), b |-> PoisonEntity(entityB)]
        ELSE IF velAlongNormal > 0
        THEN [a |-> entityA, b |-> entityB]
        ELSE [a |-> hit(entityA, -1), b |-> hit(entityB, 1)]

\* what a test of detectCollisions looked at
Shape(entity) == [position |-> entity.position, width |-> entity.width,
                  height |-> entity.height]

\* the loops of detectCollisions from the pair (i, j) on: the entities after
\* them and the pairs tested, in order, each with the outcome of the test
RECURSIVE DetectFrom(_, _, _, _)
DetectFrom(list, i, j, tests) ==
    IF i > Len(list) THEN [entities |-> list, tests |-> tests]
    ELSE IF j > Len(list) THEN DetectFrom(list, i + 1, i + 2, tests)
    ELSE LET colliding == checkCollision(list[i], list[j])
             r == resolveCollision(list[i], list[j])
             test == [i |-> i, j |-> j, a |-> Shape(list[i]), b |-> Shape(list[j]),
                      colliding |-> colliding]
         IN  DetectFrom(IF colliding THEN [list EXCEPT ![i] = r.a, ![j] = r.b] ELSE list,
                        i, j + 1, Append(tests, test))

detectCollisions(list) == DetectFrom(list, 1, 2, <<>>)

PhysicsEngine_update(list) == detectCollisions(enforceWorldBoundaries(list))

(***************************************************************************)
(* GameEngine                                                              *)
(***************************************************************************)
\* the values of the Map, in insertion order
MapValues(m) == [i \in 1..Len(m) |-> m[i].ship]

\* updatePhysics: every ship updated, then the physics engine on the player's
\* ship followed by the others; moved and bounded are the entities as
\* Ship.update and as enforceWorldBoundaries left them
updatePhysics(ship, others, dt) ==
    LET moved == <<Ship_update(ship, dt)>>
                 \o [i \in 1..Len(others) |-> Ship_update(MapValues(others)[i], dt)]
        bounded == enforceWorldBoundaries(moved)
        r == detectCollisions(bounded)
    IN  [playerShip |-> r.entities[1],
         entities |-> [i \in 1..Len(others) |->
                          [id |-> others[i].id, ship |-> r.entities[i + 1]]],
         moved |-> moved, bounded |-> bounded, tests |-> r.tests]

\* entities.set(player.id, new Ship(..)) of onPlayerJoined and onPlayersList
SetOtherShip(m, id, position, rotation, health) ==
    MapSet(m, id, [id |-> id, ship |-> NewOtherShip(position, rotation, health)])

\* the forEach of the onPlayersList callback; every player of the list is
\* another player's
RECURSIVE SetOtherShips(_, _)
SetOtherShips(m, list) ==
    IF list = <<>> THEN m
    ELSE SetOtherShips(SetOtherShip(m, Head(list).id, Head(list).position,
                                    Head(list).rotation, Head(list).health),
                       Tail(list))

(***************************************************************************)
(* Initial state                                                           *)
(***************************************************************************)
InitServer ==
    /\ sockets = {}
    /\ nextId = 0
    /\ players = <<>>
    /\ emitted = NoEmission
    /\ lastEvent = [type |-> "none"]

InitClients ==
    /\ sid = [c \in Clients |-> 0]
    /\ joinCalled = [c \in Clients |-> FALSE]
    /\ nm = [c \in Clients |-> NewNetworkManager]
    /\ sendBuffer = [c \in Clients |-> <<>>]
    /\ up = [s \in SocketIds |-> <<>>]
    /\ down = [s \in SocketIds |-> <<>>]
    /\ owner = [s \in SocketIds |-> NoClient]
    /\ removed = [c \in Clients |-> FALSE]
    /\ lastClient = [type |-> "none"]

NoInput ==
    [throttleUp |-> FALSE, throttleDown |-> FALSE, turnLeft |-> FALSE,
     turnRight |-> FALSE, centerRudder |-> FALSE]

InitGame ==
    /\ playerShip = NewPlayerShip
    /\ entities = <<>>
    /\ inputState = NoInput
    /\ lastInput = NoInput
    /\ lastShipOp = [op |-> "none"]
    /\ lastFrame = [type |-> "none"]

Init ==
    /\ InitServer
    /\ InitClients
    /\ InitGame
    /\ steps = 0

(***************************************************************************)
(* Spec: the server under arbitrary socket events                          *)
(***************************************************************************)
Tick == steps < MaxEvents /\ steps' = steps + 1

\* io.on('connection'): a new socket with a fresh id
OnConnection ==
    /\ Tick
    /\ nextId < MaxSockets
    /\ nextId' = nextId + 1
    /\ sockets' = sockets \cup {nextId + 1}
    /\ emitted' = NoEmission
    /\ lastEvent' = [type |-> "connection", socket |-> nextId + 1]
    /\ UNCHANGED <<players, clientVars, gameVars>>

OnPlayerJoin(s, name, rnd) ==
    /\ Tick
    /\ s \in sockets
    /\ LET r == JoinHandler(players, sockets, s, name, rnd)
       IN  /\ players' = r.players
           /\ emitted' = r.out
    /\ lastEvent' = JoinEvent(players, s, name)
    /\ UNCHANGED <<sockets, nextId, clientVars, gameVars>>

OnPlayerMove(s, position) ==
    /\ Tick
    /\ s \in sockets
    /\ LET r == MoveHandler(players, sockets, s, position)
       IN  /\ players' = r.players
           /\ emitted' = r.out
    /\ lastEvent' = MoveEvent(players, s, position)
    /\ UNCHANGED <<sockets, nextId, clientVars, gameVars>>

OnPlayerRotate(s, rotation) ==
    /\ Tick
    /\ s \in sockets
    /\ LET r == RotateHandler(players, sockets, s, rotation)
       IN  /\ players' = r.players
           /\ emitted' = r.out
    /\ lastEvent' = RotateEvent(players, s, rotation)
    /\ UNCHANGED <<sockets, nextId, clientVars, gameVars>>

OnDisconnect(s) ==
    /\ Tick
    /\ s \in sockets
    /\ sockets' = sockets \ {s}
    /\ LET r == DisconnectHandler(players, sockets \ {s}, s)
       IN  /\ players' = r.players
           /\ emitted' = r.out
    /\ lastEvent' = DisconnectEvent(players, s)
    /\ UNCHANGED <<nextId, clientVars, gameVars>>

Next ==
    \/ OnConnection
    \/ \E s \in SocketIds, name \in Names, rnd \in JoinPositions : OnPlayerJoin(s, name, rnd)
    \/ \E s \in SocketIds, p \in MovePositions : OnPlayerMove(s, p)
    \/ \E s \in SocketIds, r \in MoveRotations : OnPlayerRotate(s, r)
    \/ \E s \in SocketIds : OnDisconnect(s)

Spec == Init /\ [][Next]_vars

(***************************************************************************)
(* SpecNet: browser clients (GameEngine and NetworkManager) and the server *)
(* over Socket.IO connections.  A connection delivers in order in both     *)
(* directions; what is emitted on a client while it is disconnected waits  *)
(* in the socket's send buffer and goes out on the next connection.        *)
(***************************************************************************)
NetTick == steps < MaxNetSteps /\ steps' = steps + 1

\* the ids of the connections some client is still reading
LiveIds == {sid[c] : c \in Clients} \ {0}

\* socket.emit on client c: onto the wire when connected (lost when the server has
\* already closed the connection), into the send buffer otherwise
EmitUp(c, msgs) ==
    IF sid[c] # 0 /\ sid[c] \in sockets THEN [up EXCEPT ![sid[c]] = @ \o msgs] ELSE up

EmitBuffered(c, msgs) ==
    IF sid[c] = 0 THEN [sendBuffer EXCEPT ![c] = @ \o msgs] ELSE sendBuffer

\* the server's emissions, put on the connections that are still read
Delivered(out) ==
    [t \in SocketIds |-> IF t \in LiveIds THEN down[t] \o out[t] ELSE down[t]]

\* io(serverUrl, ...) succeeds: the server's 'connection' and the client's 'connect'
ClientConnect(c) ==
    /\ NetTick
    /\ sid[c] = 0
    /\ nextId < MaxSockets
    /\ LET s == nextId + 1
       IN  /\ nextId' = s
           /\ sockets' = sockets \cup {s}
           /\ owner' = [owner EXCEPT ![s] = c]
           /\ sid' = [sid EXCEPT ![c] = s]
           /\ up' = [up EXCEPT ![s] = sendBuffer[c] \o NM_connectEmits(nm[c])]
           /\ lastEvent' = [type |-> "connection", socket |-> s]
    /\ sendBuffer' = [sendBuffer EXCEPT ![c] = <<>>]
    /\ nm' = [nm EXCEPT ![c] = NM_onConnect(@)]
    /\ emitted' = NoEmission
    /\ lastClient' = [type |-> "connect", client |-> c, before |-> nm[c],
                      sent |-> NM_connectEmits(nm[c])]
    /\ UNCHANGED <<players, joinCalled, down, removed, gameVars>>

\* a connection attempt fails: 'connect_error'
ClientConnectError(c) ==
    /\ NetTick
    /\ sid[c] = 0
    /\ nm' = [nm EXCEPT ![c] = NM_onConnectError(@)]
    /\ lastClient' = [type |-> "connect_error", client |-> c, before |-> nm[c], sent |-> <<>>]
    /\ UNCHANGED <<serverVars, sid, joinCalled, sendBuffer, up, down, owner, removed, gameVars>>

\* the client notices that its connection is gone: 'disconnect'
ClientDisconnect(c) ==
    /\ NetTick
    /\ sid[c] # 0
    /\ sid' = [sid EXCEPT ![c] = 0]
    /\ down' = [down EXCEPT ![sid[c]] = <<>>]
    /\ nm' = [nm EXCEPT ![c] = NM_onDisconnect(@)]
    /\ lastClient' = [type |-> "disconnect", client |-> c, before |-> nm[c], sent |-> <<>>]
    /\ UNCHANGED <<serverVars, joinCalled, sendBuffer, up, owner, removed, gameVars>>

\* new GameEngine(canvas, playerName): once per page, calls joinGame(playerName)
GameEngineNew(c, name) ==
    /\ NetTick
    /\ ~joinCalled[c]
    /\ joinCalled' = [joinCalled EXCEPT ![c] = TRUE]
    /\ up' = EmitUp(c, <<[type |-> "player:join", name |-> name]>>)
    /\ sendBuffer' = EmitBuffered(c, <<[type |-> "player:join", name |-> name]>>)
    /\ lastClient' = [type |-> "joinGame", client |-> c]
    /\ UNCHANGED <<serverVars, sid, nm, down, owner, removed, gameVars>>

\* GameEngine.sendNetworkUpdates: updatePosition and updateRotation
SendNetworkUpdates(c, position, rotation) ==
    /\ NetTick
    /\ joinCalled[c]
    /\ LET msgs == <<[type |-> "player:move", position |-> position],
                     [type |-> "player:rotate", rotation |-> rotation]>>
       IN  /\ up' = EmitUp(c, msgs)
           /\ sendBuffer' = EmitBuffered(c, msgs)
    /\ lastClient' = [type |-> "sendNetworkUpdates", client |-> c]
    /\ UNCHANGED <<serverVars, sid, joinCalled, nm, down, owner, removed, gameVars>>

\* the server takes the next message of socket s
ServerReceive(s, rnd) ==
    /\ NetTick
    /\ s \in sockets
    /\ up[s] # <<>>
    /\ LET msg == Head(up[s])
           r   == CASE msg.type = "player:join" ->
                         JoinHandler(players, sockets, s, msg.name, rnd)
                    [] msg.type = "player:move" ->
                         MoveHandler(players, sockets, s, msg.position)
                    [] OTHER ->
                         RotateHandler(players, sockets, s, msg.rotation)
       IN  /\ players' = r.players
           /\ emitted' = r.out
           /\ down' = Delivered(r.out)
           /\ lastEvent' = CASE msg.type = "player:join" -> JoinEvent(players, s, msg.name)
                             [] msg.type = "player:move" -> MoveEvent(players, s, msg.position)
                             [] OTHER -> RotateEvent(players, s, msg.rotation)
    /\ up' = [up EXCEPT ![s] = Tail(@)]
    /\ UNCHANGED <<sockets, nextId, sid, joinCalled, nm, sendBuffer, owner,
                   removed, lastClient, gameVars>>

\* the server notices that socket s is gone: 'disconnect'
ServerDisconnect(s) ==
    /\ NetTick
    /\ s \in sockets
    /\ sockets' = sockets \ {s}
    /\ LET r == DisconnectHandler(players, sockets \ {s}, s)
       IN  /\ players' = r.players
           /\ emitted' = r.out
           /\ down' = Delivered(r.out)
           /\ removed' = [removed EXCEPT ![owner[s]] = @ \/ r.ok]
    /\ lastEvent' = DisconnectEvent(players, s)
    /\ up' = [up EXCEPT ![s] = <<>>]
    /\ UNCHANGED <<nextId, sid, joinCalled, nm, sendBuffer, owner, lastClient, gameVars>>

\* client c takes the next message of its connection
ClientReceive(c) ==
    /\ NetTick
    /\ sid[c] # 0
    /\ down[sid[c]] # <<>>
    /\ nm' = [nm EXCEPT ![c] = NM_handle(@, Head(down[sid[c]]))]
    /\ down' = [down EXCEPT ![sid[c]] = Tail(@)]
    /\ lastClient' = [type |-> "receive", client |-> c, msg |-> Head(down[sid[c]])]
    /\ UNCHANGED <<serverVars, sid, joinCalled, sendBuffer, up, owner, removed, gameVars>>

NextNet ==
    \/ \E c \in Clients : ClientConnect(c)
    \/ \E c \in Clients : ClientConnectError(c)
    \/ \E c \in Clients : ClientDisconnect(c)
    \/ \E c \in Clients, name \in ClientNames : GameEngineNew(c, name)
    \/ \E c \in Clients, p \in MovePositions, r \in MoveRotations : SendNetworkUpdates(c, p, r)
    \/ \E s \in SocketIds, rnd \in JoinPositions : ServerReceive(s, rnd)
    \/ \E s \in SocketIds : ServerDisconnect(s)
    \/ \E c \in Clients : ClientReceive(c)

SpecNet == Init /\ [][NextNet]_vars

(***************************************************************************)
(* SpecShip: the player's Ship under arbitrary calls of its interface      *)
(***************************************************************************)
ShipTick == steps < MaxShipSteps /\ steps' = steps + 1

\* what SpecShip leaves alone
notShip == <<serverVars, clientVars, entities, inputState, lastInput, lastFrame>>

\* the record of a call that is not update
ShipOp(op, ship) ==
    [op |-> op, dt |-> 0, before |-> ship, afterSpeed |-> ship.currentSpeed]

ShipIncreaseSpeedSetting ==
    /\ ShipTick
    /\ playerShip' = increaseSpeedSetting(playerShip)
    /\ lastShipOp' = ShipOp("increaseSpeedSetting", playerShip)
    /\ UNCHANGED notShip

ShipDecreaseSpeedSetting ==
    /\ ShipTick
    /\ playerShip' = decreaseSpeedSetting(playerShip)
    /\ lastShipOp' = ShipOp("decreaseSpeedSetting", playerShip)
    /\ UNCHANGED notShip

ShipTurnRudderPort ==
    /\ ShipTick
    /\ playerShip' = turnRudderPort(playerShip)
    /\ lastShipOp' = ShipOp("turnRudderPort", playerShip)
    /\ UNCHANGED notShip

ShipTurnRudderStarboard ==
    /\ ShipTick
    /\ playerShip' = turnRudderStarboard(playerShip)
    /\ lastShipOp' = ShipOp("turnRudderStarboard", playerShip)
    /\ UNCHANGED notShip

ShipCenterRudder ==
    /\ ShipTick
    /\ playerShip' = centerRudder(playerShip)
    /\ lastShipOp' = ShipOp("centerRudder", playerShip)
    /\ UNCHANGED notShip

\* update(deltaTime); afterSpeed is currentSpeed when updateSpeed has returned
ShipUpdate(dt) ==
    /\ ShipTick
    /\ playerShip' = Ship_update(playerShip, dt)
    /\ lastShipOp' = [op |-> "update", dt |-> dt, before |-> playerShip,
                      afterSpeed |-> updateSpeed(playerShip, dt).currentSpeed]
    /\ UNCHANGED notShip

NextShip ==
    \/ ShipIncreaseSpeedSetting
    \/ ShipDecreaseSpeedSetting
    \/ ShipTurnRudderPort
    \/ ShipTurnRudderStarboard
    \/ ShipCenterRudder
    \/ \E dt \in ShipDts : ShipUpdate(dt)

SpecShip == Init /\ [][NextShip]_vars

(***************************************************************************)
(* SpecGame: the GameEngine of one browser: key events, the callbacks of   *)
(* setupNetworkHandlers, and the frames of the game loop.  The camera, the *)
(* renderer and the throttled network updates read the ships and change    *)
(* nothing of them.  SpecInput is the same engine with every key and no    *)
(* other player.                                                           *)
(***************************************************************************)
GameTick == steps < MaxGameSteps /\ steps' = steps + 1

\* what the game client leaves alone
notGame == <<serverVars, clientVars>>

\* 'keydown': handleKeyDown
KeyDown(keyCode) ==
    /\ GameTick
    /\ inputState' = updateInputState(inputState, keyCode, TRUE)
    /\ UNCHANGED <<notGame, playerShip, entities, lastInput, lastShipOp, lastFrame>>

\* 'keyup': handleKeyUp
KeyUp(keyCode) ==
    /\ GameTick
    /\ inputState' = updateInputState(inputState, keyCode, FALSE)
    /\ UNCHANGED <<notGame, playerShip, entities, lastInput, lastShipOp, lastFrame>>

\* onPlayerJoined for the local player: the server's player:joined
EngineLocalJoined(position, rotation) ==
    /\ GameTick
    /\ playerShip' = [playerShip EXCEPT !.position = position, !.rotation = rotation]
    /\ UNCHANGED <<notGame, entities, inputState, lastInput, lastShipOp, lastFrame>>

\* onPlayerJoined for another player: the server's player:new
EngineOtherJoined(id, position) ==
    /\ GameTick
    /\ entities' = SetOtherShip(entities, id, position, 0, 100)
    /\ UNCHANGED <<notGame, playerShip, inputState, lastInput, lastShipOp, lastFrame>>

\* onPlayerLeft
EnginePlayerLeft(id) ==
    /\ GameTick
    /\ entities' = MapDelete(entities, id)
    /\ UNCHANGED <<notGame, playerShip, inputState, lastInput, lastShipOp, lastFrame>>

\* onPlayerMoved
EnginePlayerMoved(id, position) ==
    /\ GameTick
    /\ entities' = [i \in 1..Len(entities) |->
                       IF entities[i].id = id
                       THEN [entities[i] EXCEPT !.ship.position = position]
                       ELSE entities[i]]
    /\ UNCHANGED <<notGame, playerShip, inputState, lastInput, lastShipOp, lastFrame>>

\* onPlayerRotated
EnginePlayerRotated(id, rotation) ==
    /\ GameTick
    /\ entities' = [i \in 1..Len(entities) |->
                       IF entities[i].id = id
                       THEN [entities[i] EXCEPT !.ship.rotation = rotation]
                       ELSE entities[i]]
    /\ UNCHANGED <<notGame, playerShip, inputState, lastInput, lastShipOp, lastFrame>>

\* onPlayersList
EnginePlayersList(list) ==
    /\ GameTick
    /\ entities' = SetOtherShips(entities, list)
    /\ UNCHANGED <<notGame, playerShip, inputState, lastInput, lastShipOp, lastFrame>>

\* the keys that are down in the frame and were up in the previous one
NewlyPressed(input, last) ==
    {k \in KeyCodes :
        updateInputState(NoInput, k, TRUE) # NoInput
        /\ \E f \in DOMAIN input :
              updateInputState(NoInput, k, TRUE)[f] /\ input[f] /\ ~last[f]}

\* gameLoop: handleInput, then updatePhysics
GameLoop(dt) ==
    /\ GameTick
    /\ LET h == handleInput(playerShip, inputState, lastInput)
           p == updatePhysics(h.ship, entities, dt)
       IN  /\ playerShip' = p.playerShip
           /\ entities' = p.entities
           /\ lastInput' = h.last
           /\ lastShipOp' = [op |-> "update", dt |-> dt, before |-> h.ship,
                             afterSpeed |-> updateSpeed(h.ship, dt).currentSpeed]
           /\ lastFrame' = [type |-> "gameLoop", dt |-> dt,
                            pressed |-> NewlyPressed(inputState, lastInput),
                            applied |-> h.applied,
                            moved |-> [i \in 1..Len(p.moved) |-> p.moved[i].position],
                            bounded |-> [i \in 1..Len(p.bounded) |-> p.bounded[i].position],
                            after |-> <<p.playerShip.position>>
                                      \o [i \in 1..Len(p.entities) |->
                                             p.entities[i].ship.position],
                            tests |-> p.tests]
    /\ UNCHANGED <<notGame, inputState>>

NextGame ==
    \/ \E k \in GameKeys : KeyDown(k)
    \/ \E k \in GameKeys : KeyUp(k)
    \/ \E p \in JoinedPositions : EngineLocalJoined(p, 0)
    \/ \E id \in EntityIds, p \in RemotePositions : EngineOtherJoined(id, p)
    \/ \E id \in EntityIds : EnginePlayerLeft(id)
    \/ \E id \in EntityIds, p \in RemotePositions : EnginePlayerMoved(id, p)
    \/ \E id \in EntityIds, r \in RemoteRotations : EnginePlayerRotated(id, r)
    \/ \E list \in PlayerLists : EnginePlayersList(list)
    \/ \E dt \in GameDts : GameLoop(dt)

SpecGame == Init /\ [][NextGame]_vars

NextInput ==
    \/ \E k \in KeyCodes : KeyDown(k)
    \/ \E k \in KeyCodes : KeyUp(k)
    \/ \E dt \in InputDts : GameLoop(dt)

SpecInput == Init /\ [][NextInput]_vars

(***************************************************************************)
(* Properties of the relay server                                          *)
(***************************************************************************)
\* one copy of msg for every connected socket but s, nothing for anyone else
RelayedTo(s, msg) ==
    [t \in SocketIds |-> IF t \in sockets /\ t # s THEN <<msg>> ELSE <<>>]

PlayerIds == MapKeys(players)

\* C1: a player:move (player:rotate) from a socket whose player is registered
\* stores the payload as that player's position (rotation) and emits exactly one
\* player:moved (player:rotated) with the sender's id and the unchanged payload
\* to every other connected socket, and nothing to the sender.
C1_PureRelay ==
    /\ (lastEvent.type = "player:move" /\ lastEvent.registered) =>
          /\ MapHas(players, lastEvent.socket)
          /\ MapGet(players, lastEvent.socket).position = lastEvent.payload
          /\ emitted = RelayedTo(lastEvent.socket,
                                 [type |-> "player:moved", id |-> lastEvent.socket,
                                  position |-> lastEvent.payload])
    /\ (lastEvent.type = "player:rotate" /\ lastEvent.registered) =>
          /\ MapHas(players, lastEvent.socket)
          /\ MapGet(players, lastEvent.socket).rotation = lastEvent.payload
          /\ emitted = RelayedTo(lastEvent.socket,
                                 [type |-> "player:rotated", id |-> lastEvent.socket,
                                  rotation |-> lastEvent.payload])

\* a registered player moved while two other sockets, one of them registered, listen
C1_Witness ==
    /\ lastEvent.type = "player:move"
    /\ lastEvent.registered
    /\ Cardinality(sockets) = 3
    /\ Len(players) = 2

HealthAndScoreFixed ==
    \A i \in 1..Len(players) : players[i].health = 100 /\ players[i].score = 0

SameIdentity(p, q) ==
    p.name = q.name /\ p.health = q.health /\ p.score = q.score

\* C2 as stated: every registered player has health 100 and score 0, and no join,
\* move, rotate or disconnect changes the health, score or name of a player.
C2_NoEventChangesIdentity ==
    /\ []HealthAndScoreFixed
    /\ [][\A id \in PlayerIds :
              MapHas(players', id) => SameIdentity(MapGet(players, id), MapGet(players', id))]_vars

\* C2 amended: every registered player has health 100 and score 0; no move, rotate
\* or disconnect changes the health, score or name of a player; only a further
\* player:join from the player's own socket replaces its record.
C2_OnlyRejoinChangesIdentity ==
    /\ []HealthAndScoreFixed
    /\ [][\A id \in PlayerIds :
              MapHas(players', id) =>
                 \/ SameIdentity(MapGet(players, id), MapGet(players', id))
                 \/ /\ lastEvent'.type = "player:join"
                    /\ lastEvent'.socket = id
                    /\ lastEvent'.registered]_vars

\* a registered player was moved and rotated away from what addPlayer gave it
C2_Witness ==
    /\ lastEvent.type = "player:rotate"
    /\ lastEvent.registered
    /\ MapGet(players, lastEvent.socket).position \in MovePositions
    /\ MapGet(players, lastEvent.socket).rotation \in MoveRotations
    /\ nextId > Cardinality(sockets)

\* C10: the players:list sent to a joining socket holds exactly one entry for each
\* player registered at that moment, the joiner included, and none for a socket
\* that has disconnected.
C10_PlayersList ==
    lastEvent.type = "player:join" =>
        LET sent == emitted[lastEvent.socket]
        IN  /\ Len(sent) = 2
            /\ sent[2].type = "players:list"
            /\ LET list == sent[2].players
                   ids  == {list[i].id : i \in 1..Len(list)}
               IN  /\ ids = PlayerIds
                   /\ Len(list) = Cardinality(ids)
                   /\ \A i \in 1..Len(list) : list[i] = MapGet(players, list[i].id)
                   /\ lastEvent.socket \in ids
                   /\ ids \subseteq sockets

\* a join answered with a list of two players after another socket has left
C10_Witness ==
    /\ lastEvent.type = "player:join"
    /\ Len(emitted[lastEvent.socket][2].players) = 2
    /\ nextId > Cardinality(sockets)

\* the players without the entry of socket s, the others in their order
WithoutPlayer(s) == SelectSeq(players, LAMBDA e : e.id # s)

\* player:left {id: s} once for every socket of socks, nothing for anyone else
LeftTo(socks, s) ==
    [t \in SocketIds |-> IF t \in socks THEN <<[type |-> "player:left", id |-> s]>>
                         ELSE <<>>]

\* C11: a disconnect of a socket with a player removes that player and emits
\* player:left with its id exactly once to every socket still connected; a
\* disconnect of a socket without a player changes nothing and emits nothing;
\* no socket that has disconnected has an entry in getAllPlayers afterwards.
C11_Disconnect ==
    /\ [](\A s \in 1..nextId : s \notin sockets =>
               \A i \in 1..Len(getAllPlayers(players)) : getAllPlayers(players)[i].id # s)
    /\ [][\A s \in sockets \ sockets' :
              IF MapHas(players, s)
              THEN players' = WithoutPlayer(s) /\ emitted' = LeftTo(sockets', s)
              ELSE players' = players /\ emitted' = NoEmission]_vars

\* a socket with a player has left while two others, one of them with a
\* player, were connected
C11_Witness ==
    /\ lastEvent.type = "disconnect"
    /\ lastEvent.registered
    /\ Cardinality(sockets) = 2
    /\ Len(players) = 1
    /\ emitted = LeftTo(sockets, lastEvent.socket)

\* C12: a player:move or player:rotate from a connected socket without a
\* player leaves the players as they were, registers nobody and emits
\* nothing.
C12_UnregisteredIgnored ==
    [][(lastEvent'.type \in {"player:move", "player:rotate"} /\ ~lastEvent'.registered)
          => /\ players' = players
             /\ ~MapHas(players', lastEvent'.socket)
             /\ emitted' = NoEmission]_vars

\* a socket without a player sent player:move while two other sockets, both
\* with players, were connected
C12_Witness ==
    /\ lastEvent.type = "player:move"
    /\ ~lastEvent.registered
    /\ lastEvent.socket \in sockets
    /\ Cardinality(sockets) = 3
    /\ Len(players) = 2
    /\ emitted = NoEmission


(***************************************************************************)
(* Properties of the clients and the server together                       *)
(***************************************************************************)
\* the sockets that were handed to client c
SocketsOf(c) == {s \in SocketIds : owner[s] = c}

ClientHandlerTypes == {"connect", "connect_error", "disconnect"}

\* C3: the connect, connect_error and disconnect handlers of the NetworkManager
\* change neither players nor localPlayerId and emit nothing; player:join is not
\* sent again, so once the server has removed a client's player on disconnect, no
\* socket of that client is registered any more, and a player:move or
\* player:rotate from it is dropped and relayed to nobody.
C3_NoRejoin ==
    /\ lastClient.type \in ClientHandlerTypes =>
          /\ nm[lastClient.client] = lastClient.before
          /\ lastClient.sent = <<>>
    /\ \A c \in Clients :
          removed[c] => \A s \in SocketsOf(c) : ~MapHas(players, s)
    /\ (/\ lastEvent.type \in {"player:move", "player:rotate"}
        /\ removed[owner[lastEvent.socket]]) =>
          /\ ~lastEvent.registered
          /\ emitted = NoEmission

\* a client whose player was removed is connected again under a new id, and the
\* server has just dropped its player:move while another socket is connected
C3_Witness ==
    /\ lastEvent.type = "player:move"
    /\ removed[owner[lastEvent.socket]]
    /\ sid[owner[lastEvent.socket]] = lastEvent.socket
    /\ Cardinality(SocketsOf(owner[lastEvent.socket])) = 2
    /\ Cardinality(sockets) = 2

\* C9: on player:join from socket s the server registers a player with id s, emits
\* player:joined with that record to s, player:new with the same record to every
\* other connected socket and never to s, and then players:list to s; so a client
\* handles its own player:joined before the players:list of that join.
C9_JoinHandshake ==
    /\ lastEvent.type = "player:join" =>
          LET s == lastEvent.socket
          IN  /\ MapHas(players, s)
              /\ MapGet(players, s).id = s
              /\ emitted[s] = <<[type |-> "player:joined", player |-> MapGet(players, s)],
                                [type |-> "players:list", players |-> players]>>
              /\ \A t \in SocketIds \ {s} :
                    emitted[t] = IF t \in sockets
                                 THEN <<[type |-> "player:new", player |-> MapGet(players, s)]>>
                                 ELSE <<>>
    /\ \A c \in Clients :
          sid[c] # 0 =>
            \A i \in 1..Len(down[sid[c]]) :
               down[sid[c]][i].type = "players:list" =>
                  IF i = 1
                  THEN nm[c].localPlayerId = sid[c]
                  ELSE /\ down[sid[c]][i - 1].type = "player:joined"
                       /\ down[sid[c]][i - 1].player.id = sid[c]

\* a client has handled its player:joined and its players:list is next, while the
\* other client has the player:new of that join in flight
C9_Witness ==
    \E c, d \in Clients :
        /\ c # d
        /\ sid[c] # 0
        /\ sid[d] # 0
        /\ down[sid[c]] # <<>>
        /\ Head(down[sid[c]]).type = "players:list"
        /\ nm[c].localPlayerId = sid[c]
        /\ \E i \in 1..Len(down[sid[d]]) :
              /\ down[sid[d]][i].type = "player:new"
              /\ down[sid[d]][i].player.id = sid[c]

(***************************************************************************)
(* Properties of the Ship kinematics                                       *)
(***************************************************************************)
\* targetSpeedSetting * maxSpeed of the ship the last call started from
TargetBefore ==
    (lastShipOp.before.targetSpeedSetting * lastShipOp.before.maxSpeed) \div 1000

\* C5: updateSpeed moves currentSpeed toward targetSpeedSetting * maxSpeed by
\* at most acceleration * 15 * deltaTime, never past the target, and leaves
\* it unchanged within 0.01 of the target; changing the speed setting leaves
\* currentSpeed unchanged.
C5_GradualSpeed ==
    /\ lastShipOp.op = "update" =>
          LET b == lastShipOp.before.currentSpeed
              a == lastShipOp.afterSpeed
          IN  /\ Abs(TargetBefore - b) <= 10 => a = b
              /\ Abs(a - b) * 1000 <= lastShipOp.before.acceleration * 15 * lastShipOp.dt
              /\ b <= TargetBefore => b <= a /\ a <= TargetBefore
              /\ b >= TargetBefore => TargetBefore <= a /\ a <= b
    /\ lastShipOp.op \in {"increaseSpeedSetting", "decreaseSpeedSetting"} =>
          playerShip.currentSpeed = lastShipOp.before.currentSpeed

\* an update with time passing that found the speed off the target by at
\* most 0.01 and left it there
C5_Witness ==
    /\ lastShipOp.op = "update"
    /\ lastShipOp.dt > 0
    /\ TargetBefore # lastShipOp.before.currentSpeed
    /\ Abs(TargetBefore - lastShipOp.before.currentSpeed) <= 10
    /\ lastShipOp.afterSpeed = lastShipOp.before.currentSpeed

\* C6: Ship.update leaves rotation unchanged whenever the speed after its
\* speed update is below 5% of maxSpeed, whatever the rudder setting.
C6_MustHaveSpeedToTurn ==
    (/\ lastShipOp.op = "update"
     /\ Abs(lastShipOp.afterSpeed) * 100 < 5 * lastShipOp.before.maxSpeed)
    => playerShip.rotation = lastShipOp.before.rotation

\* an update with time passing, the rudder over and the ship moving, but
\* slower than 5% of maxSpeed
C6_Witness ==
    /\ lastShipOp.op = "update"
    /\ lastShipOp.dt > 0
    /\ lastShipOp.before.rudderSetting # MIDSHIPS
    /\ lastShipOp.afterSpeed # 0
    /\ Abs(lastShipOp.afterSpeed) * 100 < 5 * lastShipOp.before.maxSpeed
    /\ playerShip.rotation = lastShipOp.before.rotation

(***************************************************************************)
(* Properties of the game loop                                             *)
(***************************************************************************)
\* C4: the world has no borders: a frame leaves every ship where Ship.update
\* moved it, never stopped or clamped at a fixed coordinate.
C4_NoBorders ==
    lastFrame.type = "gameLoop" => lastFrame.bounded = lastFrame.moved

\* the ship operation that belongs to a key
OpOfKey(k) ==
    CASE k = "KeyW" -> "increaseSpeedSetting"
      [] k = "KeyS" -> "decreaseSpeedSetting"
      [] k = "KeyA" -> "turnRudderPort"
      [] k = "KeyD" -> "turnRudderStarboard"
      [] OTHER -> "centerRudder"

\* how often a frame called an operation
TimesApplied(op) ==
    Cardinality({i \in DOMAIN lastFrame.applied : lastFrame.applied[i] = op})

\* C7: in a frame, every key that is down and was up in the previous frame
\* has its ship operation applied exactly once.
C7_EveryKeyPressApplied ==
    lastFrame.type = "gameLoop" =>
        \A k \in lastFrame.pressed : TimesApplied(OpOfKey(k)) = 1

\* the circles of two tested entities overlap: the distance of the positions
\* is less than the sum of the radii max(width, height) / 2
CirclesOverlap(a, b) ==
    LET ra == (IF a.width > a.height THEN a.width ELSE a.height) \div 2
        rb == (IF b.width > b.height THEN b.width ELSE b.height) \div 2
        dx == a.position.x - b.position.x
        dy == a.position.y - b.position.y
    IN  /\ {a.position.x, a.position.y, b.position.x, b.position.y} \cap {NaN} = {}
        /\ Abs(dx) < ra + rb
        /\ Abs(dy) < ra + rb
        /\ dx * dx + dy * dy < (ra + rb) * (ra + rb)

WithinWorld(position) ==
    /\ ~IsNaN(position.x) /\ ~IsNaN(position.y)
    /\ -500000 <= position.x /\ position.x <= 500000
    /\ -500000 <= position.y /\ position.y <= 500000

\* C13: when the PhysicsEngine.update of a frame returns, every entity is
\* inside the world bounds, the entities moved by collision resolution
\* included.
C13_WithinBounds ==
    lastFrame.type = "gameLoop" =>
        \A i \in DOMAIN lastFrame.after : WithinWorld(lastFrame.after[i])

(***************************************************************************)
(* Properties of the speed telegraph                                       *)
(***************************************************************************)
\* C14: the speed of the player's ship, which starts at 0, stays within
\* [-0.6 * maxSpeed, maxSpeed] under every sequence of setting changes and
\* updates.
C14_SpeedInRange ==
    /\ -6 * playerShip.maxSpeed <= 10 * playerShip.currentSpeed
    /\ playerShip.currentSpeed <= playerShip.maxSpeed

\* an update of twelve seconds has brought the ship to full reverse
C14_Witness ==
    /\ lastShipOp.op = "update"
    /\ lastShipOp.dt > 10000
    /\ lastShipOp.before.currentSpeed = 0
    /\ 10 * playerShip.currentSpeed = -6 * playerShip.maxSpeed

\* the telegraph, from full reverse to full ahead
Telegraph == <<FULL_REVERSE, HALF_REVERSE, FULL_STOP, DEAD_SLOW, SLOW, HALF, FULL>>

\* the place of a setting on the telegraph, 0 for a value that is not on it
TelegraphPos(setting) ==
    IF \E i \in 1..7 : Telegraph[i] = setting
    THEN CHOOSE i \in 1..7 : Telegraph[i] = setting
    ELSE 0

\* C15: targetSpeedSetting is always on the telegraph; increaseSpeedSetting
\* moves it one place up and decreaseSpeedSetting one place down, each a
\* no-op at its end of the telegraph; an increase followed by a decrease
\* restores every setting but FULL, a decrease followed by an increase every
\* setting but FULL_REVERSE.
C15_TelegraphSteps ==
    LET here == TelegraphPos(playerShip.targetSpeedSetting)
        upDown == decreaseSpeedSetting(increaseSpeedSetting(playerShip))
        downUp == increaseSpeedSetting(decreaseSpeedSetting(playerShip))
    IN  /\ here \in 1..7
        /\ lastShipOp.op = "increaseSpeedSetting" =>
              here = Min(TelegraphPos(lastShipOp.before.targetSpeedSetting) + 1, 7)
        /\ lastShipOp.op = "decreaseSpeedSetting" =>
              here = Max(TelegraphPos(lastShipOp.before.targetSpeedSetting) - 1, 1)
        /\ TelegraphPos(upDown.targetSpeedSetting) = (IF here = 7 THEN 6 ELSE here)
        /\ TelegraphPos(downUp.targetSpeedSetting) = (IF here = 1 THEN 2 ELSE here)

\* increaseSpeedSetting was called at FULL and left the setting there
C15_Witness ==
    /\ lastShipOp.op = "increaseSpeedSetting"
    /\ lastShipOp.before.targetSpeedSetting = FULL
    /\ playerShip.targetSpeedSetting = FULL

====
